---- MODULE Spec2Model ----
(***************************************************************************)
(* Model of detect_non_installed_folders_in_steam_common.py.               *)
(*                                                                         *)
(* Strings are sequences of code points.  None is the one-element tuple    *)
(* <<-1>>, which no string equals.  The filesystem under steam_apps_dir    *)
(* is the variable fs; the program reads it and never writes it.           *)
(***************************************************************************)
EXTENDS Integers, Sequences, FiniteSets

\* ------------------------------------------------------------------------
\* Bounds of the model
\* ------------------------------------------------------------------------
\* number of chunks (key token or single character) a generated line has
MaxPieces == 6
\* number of lines of a generated manifest
MaxLines == 3
\* number of manifest slots "1.acf", "2.acf", ... of a generated steamapps
MaxManifests == 2

\* ------------------------------------------------------------------------
\* str and re primitives
\* ------------------------------------------------------------------------
None == << -1 >>

\* the double quote of the key token and of the pattern
Quote == 34

\* '"installdir"'
STEAM_MANIFEST_INSTALL_DIR_KEY ==
    << 34, 105, 110, 115, 116, 97, 108, 108, 100, 105, 114, 34 >>

\* 'common'
STEAM_COMMON_FOLDER == << 99, 111, 109, 109, 111, 110 >>

\* '.acf': the '.' of the glob pattern and the extension
STEAM_MANIFEST_EXTENSION == << 46, 97, 99, 102 >>

\* str.lower on one character (ASCII letters)
LowerChar(c) == IF c >= 65 /\ c <= 90 THEN c + 32 ELSE c

\* str.lower
Lower(s) == [i \in 1..Len(s) |-> LowerChar(s[i])]

\* {'Steam Controller Configs'.lower()}
STEAM_FOLDER_IGNORE_LIST ==
    { Lower(<< 83, 116, 101, 97, 109, 32, 67, 111, 110, 116, 114, 111, 108,
               108, 101, 114, 32, 67, 111, 110, 102, 105, 103, 115 >>) }

\* the characters str.strip removes (ASCII whitespace)
Whitespace == {9, 10, 11, 12, 13, 32}

\* t occurs in s at index i
OccursAt(s, t, i) ==
    /\ i >= 1
    /\ i + Len(t) - 1 <= Len(s)
    /\ \A k \in 1..Len(t) : s[i + k - 1] = t[k]

\* t in s
Contains(s, t) == \E i \in 1..(Len(s) + 1) : OccursAt(s, t, i)

\* s.strip()
Strip(s) ==
    LET keep == {i \in 1..Len(s) : s[i] \notin Whitespace}
        Min(S) == CHOOSE x \in S : \A y \in S : x <= y
        Max(S) == CHOOSE x \in S : \A y \in S : x >= y
    IN  IF keep = {} THEN << >> ELSE SubSeq(s, Min(keep), Max(keep))

RECURSIVE ReplaceFrom(_, _, _)
\* s[i:] with every occurrence of t removed, scanning left to right
ReplaceFrom(s, t, i) ==
    IF i > Len(s) THEN << >>
    ELSE IF OccursAt(s, t, i) THEN ReplaceFrom(s, t, i + Len(t))
    ELSE << s[i] >> \o ReplaceFrom(s, t, i + 1)

\* s.replace(t, "")
Replace(s, t) == ReplaceFrom(s, t, 1)

\* the last index of the run of characters '.' can match from i (no newline)
DotRun(s, i) ==
    LET stop == {k \in i..Len(s) : s[k] = 10}
    IN  IF stop = {} THEN Len(s)
        ELSE (CHOOSE x \in stop : \A y \in stop : x <= y) - 1

\* the ends e at which (?<=").+(?=") can match s[i..e]
RegexEnds(s, i) ==
    IF i > 1 /\ s[i - 1] = Quote
    THEN {e \in i..DotRun(s, i) : e + 1 <= Len(s) /\ s[e + 1] = Quote}
    ELSE {}

\* a non-greedy '.+?': the shortest match
MANIFEST_INSTALL_REGEX_Lazy(s, i) ==
    LET ends == RegexEnds(s, i)
    IN  IF ends = {} THEN 0 ELSE CHOOSE x \in ends : \A y \in ends : x <= y

\* r'(?<=").+(?=")' tried at index i: the end of its match, 0 when none.
\* '.+' is greedy, so the match is the longest one.
MANIFEST_INSTALL_REGEX(s, i) ==
    LET ends == RegexEnds(s, i)
    IN  IF ends = {} THEN 0 ELSE CHOOSE x \in ends : \A y \in ends : x >= y

RECURSIVE FindAllFrom(_, _)
\* the non-overlapping matches found scanning s from index i
FindAllFrom(s, i) ==
    IF i > Len(s) THEN << >>
    ELSE LET e == MANIFEST_INSTALL_REGEX(s, i)
         IN  IF e = 0 THEN FindAllFrom(s, i + 1)
             ELSE << SubSeq(s, i, e) >> \o FindAllFrom(s, e + 1)

\* re.findall(MANIFEST_INSTALL_REGEX, s)
FindAll(s) == FindAllFrom(s, 1)

\* ------------------------------------------------------------------------
\* os.path and glob primitives
\* ------------------------------------------------------------------------
\* the --steam-apps-directory argument: '/s'
steam_apps_dir == << 47, 115 >>

\* os.path.join(a, b)
join_path(a, b) == a \o << 47 >> \o b

\* os.path.basename(p): what follows the last '/'
basename(p) ==
    LET cut == {i \in 1..Len(p) : p[i] = 47}
    IN  IF cut = {} THEN p
        ELSE SubSeq(p, (CHOOSE x \in cut : \A y \in cut : x >= y) + 1, Len(p))

\* s ends with t
EndsWith(s, t) == Len(t) <= Len(s) /\ OccursAt(s, t, Len(s) - Len(t) + 1)

\* glob of the pattern '*' + suffix inside a directory: the names of the
\* entries that end with the suffix; a '*' never matches a leading dot
GlobStar(entries, suffix) ==
    {e.name : e \in {x \in entries :
                        /\ EndsWith(x.name, suffix)
                        /\ Len(x.name) > 0
                        /\ x.name[1] # 46}}

\* the entry of a directory listing that a path names
EntryOf(entries, path) == CHOOSE e \in entries : e.name = basename(path)

\* the sequences that enumerate the set S once each, in any order
Orders(S) ==
    {s \in [1..Cardinality(S) -> S] :
        \A i, j \in 1..Cardinality(S) : s[i] = s[j] => i = j}

\* a < b as Python compares str: by code point, a proper prefix first
RECURSIVE LexLess(_, _)
LexLess(a, b) ==
    IF b = << >> THEN FALSE
    ELSE IF a = << >> THEN TRUE
    ELSE IF a[1] # b[1] THEN a[1] < b[1]
    ELSE LexLess(Tail(a), Tail(b))

RECURSIVE Insert(_, _)
\* x put into the ascending sequence s
Insert(x, s) ==
    IF s = << >> THEN << x >>
    ELSE IF LexLess(s[1], x) THEN << s[1] >> \o Insert(x, Tail(s))
    ELSE << x >> \o s

RECURSIVE SortFrom(_)
SortFrom(s) == IF s = << >> THEN << >> ELSE Insert(s[1], SortFrom(Tail(s)))

\* a find_unmapped_directories that returns the list as it was appended
sorted_Skipped(s) == s

\* sorted(s)
sorted(s) == SortFrom(s)

\* ------------------------------------------------------------------------
\* State
\* ------------------------------------------------------------------------
VARIABLES
    fs,                       \* [root, common]: the two directory listings
    pc,                       \* where the program is
    manifests,                \* list of manifest paths
    game_folders,             \* set of game folder paths
    game_folders_base_paths,  \* dict: base name -> path
    cur,                      \* index of the manifest map() is at
    lines,                    \* file.readlines() of the open manifest
    lineNo,                   \* index of the line the for loop is at
    found,                    \* re.findall result on the key line
    install_dir,              \* get_manifest_install_directory's local
    installed_list,           \* set of the values the manifests yielded
    error_log,                \* manifests active_logger.error was called for
    result                    \* what find_all_unassociated_... returned

vars == << fs, pc, manifests, game_folders, game_folders_base_paths, cur,
           lines, lineNo, found, install_dir, installed_list, error_log,
           result >>

\* ------------------------------------------------------------------------
\* get_manifests_and_detect_game_directories
\* ------------------------------------------------------------------------
\* filter(isfile, glob(manifests_glob)), as a set of paths
ManifestPaths(f) ==
    {join_path(steam_apps_dir, n) :
        n \in {m \in GlobStar(f.root, STEAM_MANIFEST_EXTENSION) :
                  EntryOf(f.root, m).isfile}}

\* STEAM_FOLDER_IGNORE_LIST.__contains__(basename(x).lower())
IsIgnored(name) == Lower(name) \in STEAM_FOLDER_IGNORE_LIST

\* set(filter(isdir and not ignored, glob(games_folder_glob)))
GameFolders(f) ==
    {join_path(join_path(steam_apps_dir, STEAM_COMMON_FOLDER), n) :
        n \in {d \in GlobStar(f.common, << >>) :
                  EntryOf(f.common, d).isdir /\ ~IsIgnored(d)}}

\* {basename(x): x for x in game_folders}
BasePaths(folders) ==
    [n \in {basename(x) : x \in folders} |->
        CHOOSE x \in folders : basename(x) = n]

get_manifests_and_detect_game_directories ==
    /\ pc = "start"
    /\ \E order \in Orders(ManifestPaths(fs)) : manifests' = order
    /\ game_folders' = GameFolders(fs)
    /\ game_folders_base_paths' = BasePaths(GameFolders(fs))
    /\ pc' = "map"
    /\ UNCHANGED << fs, cur, lines, lineNo, found, install_dir,
                    installed_list, error_log, result >>

\* ------------------------------------------------------------------------
\* get_manifest_install_directory, one step of it at a time
\* ------------------------------------------------------------------------
\* file.readlines(): every line keeps its newline
readlines(entry) == [i \in 1..Len(entry.lines) |-> entry.lines[i] \o << 10 >>]

\* open(manifest_file) on a file that can be read
OpenManifest ==
    /\ pc = "map"
    /\ cur <= Len(manifests)
    /\ EntryOf(fs.root, manifests[cur]).readable
    /\ lines' = readlines(EntryOf(fs.root, manifests[cur]))
    /\ lineNo' = 1
    /\ install_dir' = None
    /\ found' = << >>
    /\ pc' = "scan"
    /\ UNCHANGED << fs, manifests, game_folders, game_folders_base_paths,
                    cur, installed_list, error_log, result >>

\* open(manifest_file) raises OSError: nothing catches it
OpenRaises ==
    /\ pc = "map"
    /\ cur <= Len(manifests)
    /\ ~EntryOf(fs.root, manifests[cur]).readable
    /\ pc' = "raised"
    /\ UNCHANGED << fs, manifests, game_folders, game_folders_base_paths,
                    cur, lines, lineNo, found, install_dir, installed_list,
                    error_log, result >>

\* STEAM_MANIFEST_INSTALL_DIR_KEY in line.strip()
IsKeyLine(line) == Contains(Strip(line), STEAM_MANIFEST_INSTALL_DIR_KEY)

\* re.findall(MANIFEST_INSTALL_REGEX, line.replace(KEY, ""))
Candidates(line) == FindAll(Replace(line, STEAM_MANIFEST_INSTALL_DIR_KEY))

\* len(found) != 1
ParseFails(f) == Len(f) # 1

\* a line without the key: the for loop goes on
SkipLine ==
    /\ pc = "scan"
    /\ lineNo <= Len(lines)
    /\ ~IsKeyLine(lines[lineNo])
    /\ lineNo' = lineNo + 1
    /\ UNCHANGED << fs, pc, manifests, game_folders,
                    game_folders_base_paths, cur, lines, found, install_dir,
                    installed_list, error_log, result >>

\* a key line whose error is logged and the loop goes on to the next line
KeyLineFails_NoBreak ==
    /\ pc = "scan"
    /\ lineNo <= Len(lines)
    /\ IsKeyLine(lines[lineNo])
    /\ ParseFails(Candidates(lines[lineNo]))
    /\ found' = Candidates(lines[lineNo])
    /\ error_log' = Append(error_log, manifests[cur])
    /\ lineNo' = lineNo + 1
    /\ UNCHANGED << fs, pc, manifests, game_folders,
                    game_folders_base_paths, cur, lines, install_dir,
                    installed_list, result >>

\* a key line without exactly one candidate: log the error and break
KeyLineFails ==
    /\ pc = "scan"
    /\ lineNo <= Len(lines)
    /\ IsKeyLine(lines[lineNo])
    /\ ParseFails(Candidates(lines[lineNo]))
    /\ found' = Candidates(lines[lineNo])
    /\ error_log' = Append(error_log, manifests[cur])
    /\ pc' = "return"
    /\ UNCHANGED << fs, manifests, game_folders, game_folders_base_paths,
                    cur, lines, lineNo, install_dir, installed_list, result >>

\* a key line with exactly one candidate: take it and break
KeyLineFound ==
    /\ pc = "scan"
    /\ lineNo <= Len(lines)
    /\ IsKeyLine(lines[lineNo])
    /\ ~ParseFails(Candidates(lines[lineNo]))
    /\ found' = Candidates(lines[lineNo])
    /\ install_dir' = Candidates(lines[lineNo])[1]
    /\ pc' = "return"
    /\ UNCHANGED << fs, manifests, game_folders, game_folders_base_paths,
                    cur, lines, lineNo, installed_list, error_log, result >>

\* a loop end that reports the missing key as an error
EndOfLines_Logged ==
    /\ pc = "scan"
    /\ lineNo > Len(lines)
    /\ error_log' = Append(error_log, manifests[cur])
    /\ pc' = "return"
    /\ UNCHANGED << fs, manifests, game_folders, game_folders_base_paths,
                    cur, lines, lineNo, found, install_dir, installed_list,
                    result >>

\* the for loop runs out of lines
EndOfLines ==
    /\ pc = "scan"
    /\ lineNo > Len(lines)
    /\ pc' = "return"
    /\ UNCHANGED << fs, manifests, game_folders, game_folders_base_paths,
                    cur, lines, lineNo, found, install_dir, installed_list,
                    error_log, result >>

\* ------------------------------------------------------------------------
\* get_set_of_installed_directories
\* ------------------------------------------------------------------------
\* return install_dir: set(map(...)) takes the value, None included
ReturnInstallDir ==
    /\ pc = "return"
    /\ installed_list' = installed_list \cup {install_dir}
    /\ cur' = cur + 1
    /\ pc' = "map"
    /\ UNCHANGED << fs, manifests, game_folders, game_folders_base_paths,
                    lines, lineNo, found, install_dir, error_log, result >>

\* ------------------------------------------------------------------------
\* find_unmapped_directories
\* ------------------------------------------------------------------------
\* a membership test that ignores letter case
IsInstalled_IgnoreCase(installed, directory_name) ==
    \E n \in installed : n # None /\ Lower(n) = Lower(directory_name)

\* installed_list.__contains__(directory_name)
IsInstalled(installed, directory_name) == directory_name \in installed

RECURSIVE Unmapped(_, _, _)
\* the for loop over the dict's items, in the order the dict yields them
Unmapped(paths, installed, order) ==
    IF order = << >> THEN << >>
    ELSE (IF IsInstalled(installed, order[1]) THEN << >>
          ELSE << paths[order[1]] >>)
         \o Unmapped(paths, installed, Tail(order))

find_unmapped_directories ==
    /\ pc = "map"
    /\ cur > Len(manifests)
    /\ \E order \in Orders(DOMAIN game_folders_base_paths) :
          result' = sorted(Unmapped(game_folders_base_paths,
                                    installed_list, order))
    /\ pc' = "done"
    /\ UNCHANGED << fs, manifests, game_folders, game_folders_base_paths,
                    cur, lines, lineNo, found, install_dir, installed_list,
                    error_log >>

Next ==
    \/ get_manifests_and_detect_game_directories
    \/ OpenManifest
    \/ OpenRaises
    \/ SkipLine
    \/ KeyLineFails
    \/ KeyLineFound
    \/ EndOfLines
    \/ ReturnInstallDir
    \/ find_unmapped_directories

\* ------------------------------------------------------------------------
\* The filesystems the program is run on
\* ------------------------------------------------------------------------
KEY == STEAM_MANIFEST_INSTALL_DIR_KEY

\* lines of a manifest, as Steam writes them (tab-indented)
LineBrace  == << 123 >>
LineName   == << 9, 34, 110, 97, 109, 101, 34, 9, 9, 34, 66, 34 >>
LineA      == << 9 >> \o KEY \o << 9, 9, 34, 65, 34 >>
LineB      == << 9 >> \o KEY \o << 9, 9, 34, 66, 34 >>
LineAB     == << 9 >> \o KEY \o << 9, 9, 34, 65, 34, 32, 34, 66, 34 >>
LineEmpty  == << 9 >> \o KEY \o << 9, 9, 34, 34 >>
LineBare   == KEY

SampleLines ==
    {LineBrace, LineName, LineA, LineB, LineAB, LineEmpty, LineBare}

\* the chunks generated lines are made of: the key token, '"', 'A', ' '
Pieces == {KEY, << 34 >>, << 65 >>, << 32 >>}

RECURSIVE Flatten(_)
Flatten(ss) == IF ss = << >> THEN << >> ELSE ss[1] \o Flatten(Tail(ss))

PieceLines ==
    {Flatten(ps) : ps \in UNION {[1..n -> Pieces] : n \in 0..MaxPieces}}

SlotName(i) == << 48 + i >> \o STEAM_MANIFEST_EXTENSION

File(name, content) ==
    [name |-> name, isfile |-> TRUE, readable |-> TRUE, lines |-> content]

Unreadable(name) ==
    [name |-> name, isfile |-> TRUE, readable |-> FALSE, lines |-> << >>]

Folder(name) ==
    [name |-> name, isfile |-> FALSE, readable |-> TRUE, lines |-> << >>]

\* what a manifest slot can hold in a generated steamapps
SlotKinds(name) ==
    { File(name, << LineName, LineA >>),
      File(name, << LineName >>),
      File(name, << LineAB >>),
      File(name, << LineEmpty, LineB >>),
      Unreadable(name),
      Folder(name) }

\* entries every generated steamapps has: the common folder, a hidden
\* manifest and a file of another extension, both declaring "B"
FixedRoot ==
    { Folder(STEAM_COMMON_FOLDER),
      File(<< 46, 57 >> \o STEAM_MANIFEST_EXTENSION, << LineB >>),
      File(<< 57, 46, 116, 120, 116 >>, << LineB >>) }

\* the choices of the slots 1..n: each empty or of one kind
RECURSIVE SlotChoices(_)
SlotChoices(n) ==
    IF n = 0 THEN {{}}
    ELSE LET rest == SlotChoices(n - 1)
         IN  rest \cup {r \cup {k} : r \in rest, k \in SlotKinds(SlotName(n))}

Dir(name) == [name |-> name, isdir |-> TRUE]

SteamControllerConfigs ==
    << 83, 116, 101, 97, 109, 32, 67, 111, 110, 116, 114, 111, 108,
       108, 101, 114, 32, 67, 111, 110, 102, 105, 103, 115 >>

SteamControllerConfigsUpper ==
    << 83, 84, 69, 65, 77, 32, 67, 79, 78, 84, 82, 79, 76,
       76, 69, 82, 32, 67, 79, 78, 70, 73, 71, 83 >>

\* the game folders a common folder can hold: A, a, B and the hidden .B
GameDirs == { Dir(<< 65 >>), Dir(<< 97 >>), Dir(<< 66 >>), Dir(<< 46, 66 >>) }

\* what else it can hold: the two spellings of the ignored folder and a
\* plain file f
OtherEntries ==
    { Dir(SteamControllerConfigs), Dir(SteamControllerConfigsUpper),
      [name |-> << 102 >>, isdir |-> FALSE] }

CommonUniverse == GameDirs \cup OtherEntries

\* the common folders: any of the game folders, with or without the rest
CommonChoices ==
    {g \cup o : g \in SUBSET GameDirs, o \in {{}, OtherEntries}}

InitOn(roots, commons) ==
    /\ fs \in [root : roots, common : commons]
    /\ pc = "start"
    /\ manifests = << >>
    /\ game_folders = {}
    /\ game_folders_base_paths = << >>
    /\ cur = 1
    /\ lines = << >>
    /\ lineNo = 1
    /\ found = << >>
    /\ install_dir = None
    /\ installed_list = {}
    /\ error_log = << >>
    /\ result = << >>

\* any steamapps of up to MaxManifests manifest slots, any common folder
Init ==
    InitOn({FixedRoot \cup r : r \in SlotChoices(MaxManifests)},
           CommonChoices)

Spec == Init /\ [][Next]_vars

\* one manifest of up to MaxLines sample lines (or an unreadable one)
InitManifest ==
    InitOn({FixedRoot \cup {File(SlotName(1), c)} :
               c \in UNION {[1..n -> SampleLines] : n \in 0..MaxLines}}
             \cup {FixedRoot \cup {Unreadable(SlotName(1))}},
           {CommonUniverse})

SpecManifest == InitManifest /\ [][Next]_vars

\* one manifest of one generated line (or an unreadable one)
InitLine ==
    InitOn({FixedRoot \cup {File(SlotName(1), << l >>)} : l \in PieceLines}
             \cup {FixedRoot \cup {Unreadable(SlotName(1))}},
           {CommonUniverse})

SpecLine == InitLine /\ [][Next]_vars

\* ------------------------------------------------------------------------
\* Vocabulary of the properties
\* ------------------------------------------------------------------------
MinOf(S) == CHOOSE x \in S : \A y \in S : x <= y
MaxOf(S) == CHOOSE x \in S : \A y \in S : x >= y

\* the indices of the double quotes of s
Quotes(s) == {i \in 1..Len(s) : s[i] = Quote}

\* the indices of the key lines of a manifest
KeyLines(ls) == {i \in 1..Len(ls) : IsKeyLine(ls[i])}

\* the key line with its key tokens removed
Remainder(line) == Replace(line, KEY)

\* how many times the error was logged for manifest m
ErrorsFor(m) == Cardinality({i \in 1..Len(error_log) : error_log[i] = m})

\* get_manifest_install_directory is about to return, on a break at a key line
AtKeyLine == pc = "return" /\ lineNo <= Len(lines)

\* a < b, by the first index where they differ
StrLess(a, b) ==
    \E k \in 1..(Len(b)) :
        /\ \A i \in 1..(k - 1) : i <= Len(a) /\ a[i] = b[i]
        /\ (k > Len(a) \/ a[k] < b[k])

Ascending(s) == \A i, j \in 1..Len(s) : i < j => StrLess(s[i], s[j])

PathOfDir(name) ==
    join_path(join_path(steam_apps_dir, STEAM_COMMON_FOLDER), name)

DirA == << 65 >>
DirLowerA == << 97 >>
DirB == << 66 >>

\* ------------------------------------------------------------------------
\* C10
\* ------------------------------------------------------------------------
\* C10: on a key line the pattern matches at most once; the value is the
\* text between the first and the last double quote of the remainder when at
\* least one character lies between them, and otherwise an error is logged
\* and None is returned.
C10_AtMostOneMatchFirstToLastQuote ==
    AtKeyLine =>
        LET r == Remainder(lines[lineNo])
            q == Quotes(r)
        IN  /\ Len(found) <= 1
            /\ IF Cardinality(q) >= 2 /\ MaxOf(q) - MinOf(q) >= 2
               THEN /\ found = << SubSeq(r, MinOf(q) + 1, MaxOf(q) - 1) >>
                    /\ install_dir = found[1]
                    /\ ErrorsFor(manifests[cur]) = 0
               ELSE /\ found = << >>
                    /\ install_dir = None
                    /\ ErrorsFor(manifests[cur]) = 1

\* a key line with three or more quotes whose value spans an inner quote
C10_Witness ==
    /\ AtKeyLine
    /\ Cardinality(Quotes(Remainder(lines[lineNo]))) >= 3
    /\ install_dir # None
    /\ \E i \in 1..Len(install_dir) : install_dir[i] = Quote

\* ------------------------------------------------------------------------
\* C2
\* ------------------------------------------------------------------------
\* C2: a value a manifest yields is the text between the first pair of
\* double quotes of the remainder of its key line: it contains no double
\* quote and ends at the first closing quote.
C2_ValueIsFirstQuotedSubstring ==
    (AtKeyLine /\ install_dir # None) =>
        LET r == Remainder(lines[lineNo])
            q == Quotes(r)
            open == MinOf(q)
            close == MinOf(q \ {open})
        IN  /\ install_dir = SubSeq(r, open + 1, close - 1)
            /\ \A i \in 1..Len(install_dir) : install_dir[i] # Quote

\* ------------------------------------------------------------------------
\* C3
\* ------------------------------------------------------------------------
\* the number of quoted substrings of s, its quotes paired left to right
NumQuoted(s) == Cardinality(Quotes(s)) \div 2

\* C3: when the first key line has no quoted candidate, or two or more
\* quoted substrings after the key token, an error is logged and no value
\* is yielded.
C3_AmbiguousKeyLineYieldsNothing ==
    (AtKeyLine /\ NumQuoted(Remainder(lines[lineNo])) # 1) =>
        /\ install_dir = None
        /\ ErrorsFor(manifests[cur]) = 1

\* ------------------------------------------------------------------------
\* C7
\* ------------------------------------------------------------------------
\* C7: the outcome is decided on the first key line and the scan stops
\* there: the value is the one candidate of that line or None, the error is
\* logged at most once, and no later key line is looked at.
C7_FirstKeyLineDecides ==
    (pc = "return" /\ KeyLines(lines) # {}) =>
        LET first == MinOf(KeyLines(lines))
            c == Candidates(lines[first])
        IN  /\ lineNo = first
            /\ install_dir = (IF Len(c) = 1 THEN c[1] ELSE None)
            /\ ErrorsFor(manifests[cur]) = (IF Len(c) = 1 THEN 0 ELSE 1)

\* the first key line fails and a later key line is well-formed
C7_Witness ==
    /\ pc = "return"
    /\ KeyLines(lines) # {}
    /\ Len(Candidates(lines[MinOf(KeyLines(lines))])) # 1
    /\ \E i \in KeyLines(lines) :
          i > MinOf(KeyLines(lines)) /\ Len(Candidates(lines[i])) = 1
    /\ install_dir = None

\* ------------------------------------------------------------------------
\* C8
\* ------------------------------------------------------------------------
\* C8: a manifest without a key line yields None and logs nothing; an error
\* is logged exactly when a key line is found whose candidates are not
\* exactly one.
C8_ErrorOnlyOnBadKeyLine ==
    pc = "return" =>
        /\ KeyLines(lines) = {} =>
              install_dir = None /\ ErrorsFor(manifests[cur]) = 0
        /\ ErrorsFor(manifests[cur]) > 0 <=>
              /\ KeyLines(lines) # {}
              /\ Len(Candidates(lines[MinOf(KeyLines(lines))])) # 1

\* a manifest of several lines, none with the key
C8_Witness ==
    /\ pc = "return"
    /\ Len(lines) >= 2
    /\ KeyLines(lines) = {}
    /\ install_dir = None
    /\ error_log = << >>

\* ------------------------------------------------------------------------
\* C6
\* ------------------------------------------------------------------------
\* C6: the installed set holds only the non-empty values extracted from
\* manifests: a manifest that yields no value adds no element.
C6_InstalledSetHoldsOnlyValues ==
    (pc = "done" \/ (pc = "map" /\ cur > Len(manifests))) =>
        \A v \in installed_list : v # None /\ v # << >>

\* ------------------------------------------------------------------------
\* C4
\* ------------------------------------------------------------------------
\* C4: a manifest that cannot be opened never aborts the scan.
C4_ScanNeverAborts == pc # "raised"

\* ------------------------------------------------------------------------
\* C5
\* ------------------------------------------------------------------------
\* C5: a subdirectory of common named like the ignored folder, in any
\* letter case, is never a candidate and never in the result; every other
\* subdirectory of common is a candidate.
C5_CandidatesAreAllButIgnored ==
    pc # "start" =>
        /\ game_folders =
              {PathOfDir(d.name) :
                  d \in {x \in fs.common :
                            /\ x.isdir
                            /\ Lower(x.name) \notin STEAM_FOLDER_IGNORE_LIST}}
        /\ \A i \in 1..Len(result) :
              Lower(basename(result[i])) \notin STEAM_FOLDER_IGNORE_LIST

\* ------------------------------------------------------------------------
\* C1
\* ------------------------------------------------------------------------
\* C1: find_unmapped_directories(C, I) is the ascending list of the paths of
\* the entries of C whose key is not in I, by exact string equality.
C1_UnmappedAreExactlyTheKeysNotInstalled ==
    pc = "done" =>
        LET C == game_folders_base_paths
            I == installed_list
            want == {C[k] : k \in {n \in DOMAIN C : \A v \in I : v # n}}
        IN  /\ {result[i] : i \in 1..Len(result)} = want
            /\ Len(result) = Cardinality(want)
            /\ Ascending(result)

\* A is installed and a candidate, a is a candidate: a is reported, A is not
C1_Witness ==
    /\ pc = "done"
    /\ DirA \in installed_list
    /\ DirA \in DOMAIN game_folders_base_paths
    /\ DirLowerA \in DOMAIN game_folders_base_paths
    /\ \E i \in 1..Len(result) : result[i] = PathOfDir(DirLowerA)
    /\ \A i \in 1..Len(result) : result[i] # PathOfDir(DirA)
    /\ Len(result) >= 2

\* ------------------------------------------------------------------------
\* C9
\* ------------------------------------------------------------------------
\* the value a manifest file yields, read off its content
ValueOf(entry) ==
    LET ls == readlines(entry)
    IN  IF KeyLines(ls) = {} THEN None
        ELSE LET c == Candidates(ls[MinOf(KeyLines(ls))])
             IN  IF Len(c) = 1 THEN c[1] ELSE None

\* the orphans of a filesystem, read off its content
Orphans(f) ==
    {p \in GameFolders(f) :
        \A m \in ManifestPaths(f) : ValueOf(EntryOf(f.root, m)) # basename(p)}

\* C9: the returned list depends on the filesystem alone: whatever order
\* the manifests and the folders were enumerated in, it is the ascending
\* list of the orphans.
C9_ResultDependsOnFilesystemOnly ==
    pc = "done" =>
        /\ {result[i] : i \in 1..Len(result)} = Orphans(fs)
        /\ Len(result) = Cardinality(Orphans(fs))
        /\ Ascending(result)

\* two manifests enumerated in descending order, several orphans
C9_Witness ==
    /\ pc = "done"
    /\ Len(manifests) >= 2
    /\ StrLess(manifests[2], manifests[1])
    /\ Len(result) >= 2
    /\ installed_list \cap {DirA, DirB} # {}

====
